---- MODULE Spec2Model ----
(***************************************************************************)
(* HyperNDVI: decoding of hyperspectral capture files (NDVIfunctions.py)   *)
(* and the per-pixel NDVI computed from two bands of the decoded cube.     *)
(*                                                                         *)
(* Byte strings and numpy arrays are far too large to enumerate (up to     *)
(* 585,755,200 bytes), so they are modelled the way numpy itself holds     *)
(* them: as views.  A bytes object is a length and a rule giving the byte  *)
(* at every index; an ndarray is a flat data source with a shape and       *)
(* strides.  All lengths, offsets and index computations use the real      *)
(* constants of the source.                                                *)
(***************************************************************************)
EXTENDS Integers, Sequences, FiniteSets, TLC

VARIABLES
    arg,     \* the bytes object passed to the last read_HSD_from_buffer call
    ret,     \* what the last read_HSD_from_buffer call returned or raised
    ndvi,    \* what the last calculate_ndvi call returned or raised
    written, \* the cube passed to the last write_HSD_to_buffer call
    file,    \* the file written by write_HSD_to_buffer, NoFile before
    stdout,  \* the lines printed so far
    last     \* the operation that ran last

vars == <<arg, ret, ndvi, written, file, stdout, last>>

(***************************************************************************)
(* Bounds of the model.                                                    *)
(***************************************************************************)
\* probe coordinates per axis: the first and the last ProbeSpan indices
ProbeSpan == 2
\* number of distinct content seeds an uploaded buffer is drawn from
MaxSeed == 2
\* lines kept on stdout before the model stops issuing printing calls
MaxStdout == 3
\* how many times a written file may be read back and written again
MaxRoundTrips == 1

Min(a, b) == IF a <= b THEN a ELSE b
Max(a, b) == IF a >= b THEN a ELSE b

(***************************************************************************)
(* bytes objects.                                                          *)
(*   [kind |-> "gen", len, cut, hseed, pseed]  an uploaded file: byte i is *)
(*        GenByte(hseed, i) for i < cut and GenByte(pseed, i) from cut on  *)
(*   [kind |-> "tobytes", arr]   ndarray.tobytes(): the elements of arr in *)
(*        C order, each in the machine's (little-endian) byte order        *)
(***************************************************************************)
GenByte(seed, i) ==
    ((i % 251) * (2 * seed + 1) + ((i \div 251) % 241) * (seed + 3) + 17 * seed) % 256

ItemSize(dtype) == IF dtype = "uint16" THEN 2 ELSE 1

Size(shape) == shape[1] * shape[2] * shape[3]

BytesLen(b) ==
    IF b.kind = "gen" THEN b.len
    ELSE Size(b.arr.shape) * ItemSize(b.arr.dtype)

\* mutant: the cast keeps the high byte
AsUint8High(v) == v \div 256

\* dat.astype(np.uint8) of one uint16 sample: numpy casts as C does, keeping
\* the low 8 bits
AsUint8(v) == v % 256

RECURSIVE ByteAt(_, _)
RECURSIVE FlatAt(_, _)

\* ndarray element at a multi-index: base[offset of the index under the strides]
ElemAt(arr, idx) ==
    FlatAt(arr.base,
           idx[1] * arr.strides[1] + idx[2] * arr.strides[2] + idx[3] * arr.strides[3])

\* element k of a flat data source:
\*   np.array(seq): the samples given literally
\*   np.frombuffer(buffer[off:], dtype): item bytes from off + k*item, little-endian
\*   dat.astype(np.uint8): the C cast of the unsigned source value, its low 8 bits
FlatAt(base, k) ==
    IF base.kind = "frombuffer"
    THEN IF base.item = 1
         THEN ByteAt(base.buf, base.off + k)
         ELSE ByteAt(base.buf, base.off + 2 * k)
              + 256 * ByteAt(base.buf, base.off + 2 * k + 1)
    ELSE IF base.kind = "array" THEN base.seq[k + 1]
    ELSE AsUint8(FlatAt(base.src, k))

ByteAt(b, i) ==
    IF b.kind = "gen"
    THEN IF i < b.cut THEN GenByte(b.hseed, i) ELSE GenByte(b.pseed, i)
    ELSE LET item == ItemSize(b.arr.dtype)
             e    == i \div item
             s    == b.arr.shape
             v    == ElemAt(b.arr, <<e \div (s[2] * s[3]), (e \div s[3]) % s[2], e % s[3]>>)
         IN  IF item = 1 THEN v
             ELSE IF i % 2 = 0 THEN v % 256 ELSE v \div 256

(***************************************************************************)
(* ndarray operations used by the source.                                  *)
(***************************************************************************)
\* np.reshape(dat, (a, b, c)) of a flat C-contiguous array
Reshape(base, dtype, shape) ==
    [base |-> base, dtype |-> dtype, shape |-> shape,
     strides |-> <<shape[2] * shape[3], shape[3], 1>>]

\* mutant: the new shape is imposed on the old element order (a reshape)
TransposeAsReshape(arr) ==
    [arr EXCEPT !.shape = <<arr.shape[1], arr.shape[3], arr.shape[2]>>,
                !.strides = <<arr.shape[3] * arr.shape[2], arr.shape[2], 1>>]

\* arr.transpose(0, 2, 1): a view with the last two axes exchanged
Transpose021(arr) ==
    [arr EXCEPT !.shape = <<arr.shape[1], arr.shape[3], arr.shape[2]>>,
                !.strides = <<arr.strides[1], arr.strides[3], arr.strides[2]>>]

(***************************************************************************)
(* The five layout readers.  Each one computes the payload length from its *)
(* own constants, takes whatever precedes the payload as the header,       *)
(* prints the header's size, views the rest as samples and reshapes them   *)
(* to (Y, Z, X).                                                           *)
(***************************************************************************)
\* len(buffer[:n]) for a buffer of length len: a negative n counts from the end
SliceStop(len, n) == IF n >= 0 THEN Min(n, len) ELSE Max(len + n, 0)

\* mutant: the sample width is left out of the payload length
RawLenNoWidth(X, Y, Z, item) == X * Y * Z

\* RAW_len = X * Y * Z * (bytes per sample)
RawLen(X, Y, Z, item) == X * Y * Z * item

\* header = buffer[:len(buffer) - RAW_len]; header_size = len(header)
HeaderSize(buffer, RAW_len) == SliceStop(BytesLen(buffer), BytesLen(buffer) - RAW_len)

\* mutant: the reader prints nothing
PrintHeaderSilent(header_size) == <<>>

\* print("Header Size:", header_size, "bytes")
PrintHeader(header_size) ==
    <<[text |-> "Header Size:", n |-> header_size, unit |-> "bytes"]>>

\* mutant: the samples are taken from the front of the buffer, buffer[:RAW_len]
PayloadFromStart(buffer, header_size) ==
    [off |-> 0, nbytes |-> BytesLen(buffer) - header_size]

\* buffer[header_size:]: where the slice starts and how many bytes it holds
Payload(buffer, header_size) ==
    [off |-> header_size, nbytes |-> BytesLen(buffer) - header_size]

\* the body the five readers share
ReadRaw(buffer, X, Y, Z, dtype, cast, name) ==
    LET item        == ItemSize(dtype)
        RAW_len     == RawLen(X, Y, Z, item)
        header_size == HeaderSize(buffer, RAW_len)
        printed     == PrintHeader(header_size)
        pay         == Payload(buffer, header_size)
        raw         == [kind |-> "frombuffer", buf |-> buffer, off |-> pay.off,
                        item |-> item]
        dat         == IF cast THEN [kind |-> "astype", src |-> raw] ELSE raw
        outtype     == IF cast THEN "uint8" ELSE dtype
    IN  IF pay.nbytes % item # 0
        THEN [status |-> "raise", type |-> "ValueError", in |-> "frombuffer",
              reader |-> name, printed |-> printed]
        ELSE IF pay.nbytes \div item # Y * Z * X
        THEN [status |-> "raise", type |-> "ValueError", in |-> "reshape",
              reader |-> name, printed |-> printed]
        ELSE [status |-> "ok", reader |-> name, printed |-> printed,
              header_size |-> header_size,
              HSData |-> Reshape(dat, outtype, <<Y, Z, X>>), Y |-> Y, X |-> X]

read_custom(buffer) == ReadRaw(buffer, 350, 300, 141, "uint8", FALSE, "read_custom")

read_HSC180X_CL(buffer) ==
    ReadRaw(buffer, 1920, 1080, 141, "uint16", FALSE, "read_HSC180X_CL")

read_HSC180X(buffer) == ReadRaw(buffer, 1280, 1024, 141, "uint16", FALSE, "read_HSC180X")

read_HSC170X_old(buffer) ==
    ReadRaw(buffer, 640, 480, 141, "uint16", TRUE, "read_HSC170X_old")

read_HSC170X_new(buffer) ==
    ReadRaw(buffer, 640, 480, 141, "uint8", FALSE, "read_HSC170X_new")

(***************************************************************************)
(* read_HSD_from_buffer: dispatch on len(buffer), then transpose(0, 2, 1). *)
(***************************************************************************)
\* mutant: the two 640 x 480 readers are exchanged
DispatchSwapped(buffer) ==
    LET file_size == BytesLen(buffer)
    IN  IF file_size = 370623040 THEN read_HSC180X(buffer)
        ELSE IF file_size = 87630400 THEN read_HSC170X_new(buffer)
        ELSE IF file_size = 44315200 THEN read_HSC170X_old(buffer)
        ELSE IF file_size = 585755200 THEN read_HSC180X_CL(buffer)
        ELSE IF file_size = 14805000 THEN read_custom(buffer)
        ELSE [status |-> "raise", type |-> "ValueError", in |-> "read_HSD_from_buffer",
              msg |-> "Unsupported file size", size |-> file_size,
              reader |-> "none", printed |-> <<>>]

Dispatch(buffer) ==
    LET file_size == BytesLen(buffer)
    IN  IF file_size = 370623040 THEN read_HSC180X(buffer)
        ELSE IF file_size = 87630400 THEN read_HSC170X_old(buffer)
        ELSE IF file_size = 44315200 THEN read_HSC170X_new(buffer)
        ELSE IF file_size = 585755200 THEN read_HSC180X_CL(buffer)
        ELSE IF file_size = 14805000 THEN read_custom(buffer)
        ELSE [status |-> "raise", type |-> "ValueError", in |-> "read_HSD_from_buffer",
              msg |-> "Unsupported file size", size |-> file_size,
              reader |-> "none", printed |-> <<>>]

read_HSD_from_buffer(buffer) ==
    LET r == Dispatch(buffer)
    IN  IF r.status = "ok"
        THEN [status |-> "ok", reader |-> r.reader, printed |-> r.printed,
              header_size |-> r.header_size,
              HSData |-> Transpose021(r.HSData), Y |-> r.Y, X |-> r.X]
        ELSE r

(***************************************************************************)
(* IEEE-754 binary32 arithmetic, as numpy performs it on float32 arrays.   *)
(* A value is [cls, s, m, e]: cls "zero", "inf", "nan", or "finite" with   *)
(* value (-1)^s * m * 2^e and 2^23 <= m < 2^24.  Results are rounded to    *)
(* nearest, ties to even.  Subnormal results cannot arise from 16-bit      *)
(* samples and are not represented.                                        *)
(***************************************************************************)
RECURSIVE BitLen(_)
BitLen(n) == IF n = 0 THEN 0 ELSE 1 + BitLen(n \div 2)

F32Zero == [cls |-> "zero", s |-> 0, m |-> 0, e |-> 0]
F32Inf(s) == [cls |-> "inf", s |-> s, m |-> 0, e |-> 0]
F32NaN == [cls |-> "nan", s |-> 0, m |-> 0, e |-> 0]

\* the float32 nearest to M * 2^E (a little above it when sticky), M > 0
Round24(s, M, E, sticky) ==
    LET k    == BitLen(M) - 24
        q    == IF k > 0 THEN M \div (2 ^ k) ELSE M * (2 ^ (0 - k))
        r    == IF k > 0 THEN M % (2 ^ k) ELSE 0
        half == IF k > 0 THEN 2 ^ (k - 1) ELSE 1
        up   == k > 0 /\ (r > half \/ (r = half /\ (sticky \/ q % 2 = 1)))
        q1   == IF up THEN q + 1 ELSE q
        m    == IF q1 = 2 ^ 24 THEN 2 ^ 23 ELSE q1
        e    == IF q1 = 2 ^ 24 THEN E + k + 1 ELSE E + k
    IN  IF e + 23 > 127 THEN F32Inf(s)
        ELSE [cls |-> "finite", s |-> s, m |-> m, e |-> e]

\* arr.astype(np.float32) of an integer sample
F32FromInt(v) ==
    IF v = 0 THEN F32Zero
    ELSE Round24(IF v < 0 THEN 1 ELSE 0, IF v < 0 THEN 0 - v ELSE v, 0, FALSE)

F32Neg(x) == IF x.cls = "nan" THEN x ELSE [x EXCEPT !.s = 1 - x.s]

\* x + y
F32Add(x, y) ==
    IF x.cls = "nan" \/ y.cls = "nan" THEN F32NaN
    ELSE IF x.cls = "inf"
         THEN IF y.cls = "inf" /\ y.s # x.s THEN F32NaN ELSE x
    ELSE IF y.cls = "inf" THEN y
    ELSE IF x.cls = "zero" THEN (IF y.cls = "zero" THEN F32Zero ELSE y)
    ELSE IF y.cls = "zero" THEN x
    ELSE LET hi     == IF x.e >= y.e THEN x ELSE y
             lo     == IF x.e >= y.e THEN y ELSE x
             d      == hi.e - lo.e
             Hm     == hi.m * 8
             Lm     == IF d > 26 THEN 0 ELSE (lo.m * 8) \div (2 ^ d)
             sticky == IF d > 26 THEN TRUE ELSE (lo.m * 8) % (2 ^ d) # 0
             diff   == IF sticky THEN Hm - Lm - 1 ELSE Hm - Lm
         IN  IF hi.s = lo.s THEN Round24(hi.s, Hm + Lm, hi.e - 3, sticky)
             ELSE IF diff = 0 THEN F32Zero
             ELSE IF diff > 0 THEN Round24(hi.s, diff, hi.e - 3, sticky)
             ELSE Round24(lo.s, 0 - diff, hi.e - 3, sticky)

F32Sub(x, y) == F32Add(x, F32Neg(y))

\* <<floor(n * 2^i / d), whether a remainder is left>>, from <<q, r>> with r < d
RECURSIVE LongDiv(_, _, _, _)
LongDiv(q, r, d, i) ==
    IF i = 0 THEN <<q, r # 0>>
    ELSE IF 2 * r >= d THEN LongDiv(2 * q + 1, 2 * r - d, d, i - 1)
    ELSE LongDiv(2 * q, 2 * r, d, i - 1)

\* x / y; numpy returns inf or nan (with a RuntimeWarning) for a zero divisor
F32Div(x, y) ==
    LET s == IF x.s = y.s THEN 0 ELSE 1
    IN  IF x.cls = "nan" \/ y.cls = "nan" THEN F32NaN
        ELSE IF x.cls = "inf" THEN (IF y.cls = "inf" THEN F32NaN ELSE F32Inf(s))
        ELSE IF y.cls = "inf" THEN F32Zero
        ELSE IF y.cls = "zero" THEN (IF x.cls = "zero" THEN F32NaN ELSE F32Inf(s))
        ELSE IF x.cls = "zero" THEN F32Zero
        ELSE LET qr == LongDiv(x.m \div y.m, x.m % y.m, y.m, 26)
             IN  Round24(s, qr[1], x.e - y.e - 26, qr[2])

\* the Python float 1e-6 as it enters float32 arithmetic: the float32 nearest
\* to 10^-6, 8796093 * 2^-43
Eps32 == F32Div(F32FromInt(1), F32FromInt(1000000))

(***************************************************************************)
(* calculate_ndvi(hsi_cube, nir_band_idx, red_band_idx).                   *)
(***************************************************************************)
\* the coordinates at which arrays are sampled: both ends of an axis of length n
ProbeIdx(n) == (0 .. Min(ProbeSpan, n) - 1) \cup (Max(n - ProbeSpan, 0) .. n - 1)

\* numpy integer indexing along an axis of length n: a negative index counts
\* from the end, anything outside [-n, n) raises IndexError
IndexOk(i, n) == 0 - n <= i /\ i < n
Wrap(i, n) == IF i < 0 THEN i + n ELSE i

\* hsi_cube[:, :, idx].astype(np.float32) at pixel (y, x)
Band32(hsi_cube, idx, y, x) ==
    F32FromInt(ElemAt(hsi_cube, <<y, x, Wrap(idx, hsi_cube.shape[3])>>))

\* mutant: the 1e-6 is left out of the denominator
NdviValueNoEps(nir, red) == F32Div(F32Sub(nir, red), F32Add(nir, red))

\* mutant: the parentheses around the numerator are missing
NdviValueNoParens(nir, red) ==
    F32Sub(nir, F32Div(red, F32Add(F32Add(nir, red), Eps32)))

\* (nir - red) / (nir + red + 1e-6) on float32 operands
NdviValue(nir, red) == F32Div(F32Sub(nir, red), F32Add(F32Add(nir, red), Eps32))

calculate_ndvi(hsi_cube, nir_band_idx, red_band_idx) ==
    LET Z == hsi_cube.shape[3]
    IN  IF ~IndexOk(nir_band_idx, Z)
        THEN [status |-> "raise", type |-> "IndexError", index |-> nir_band_idx,
              size |-> Z]
        ELSE IF ~IndexOk(red_band_idx, Z)
        THEN [status |-> "raise", type |-> "IndexError", index |-> red_band_idx,
              size |-> Z]
        ELSE [status |-> "ok",
              shape |-> <<hsi_cube.shape[1], hsi_cube.shape[2]>>,
              at |-> [p \in ProbeIdx(hsi_cube.shape[1]) \X ProbeIdx(hsi_cube.shape[2]) |->
                        NdviValue(Band32(hsi_cube, nir_band_idx, p[1], p[2]),
                                  Band32(hsi_cube, red_band_idx, p[1], p[2]))]]

(***************************************************************************)
(* The state machine: a caller that uploads files, decodes them, computes  *)
(* NDVI rasters and writes cubes back to disk.                             *)
(***************************************************************************)
NoRet  == [status |-> "none"]
NoFile == [kind |-> "nofile"]

\* total lengths a caller may present: the five supported ones, the payload
\* lengths of the four layouts that carry a header, and lengths matching nothing
SupportedLens == {370623040, 87630400, 44315200, 585755200, 14805000}

UnsupportedLens ==
    {0, 1, 999999999, 369623040, 86630400, 43315200, 584755200, 14804999, 370623041}

\* the lengths at which an upload's header bytes may stop and its payload begin
Cuts(len) == IF len \in SupportedLens THEN {0, 1000000} ELSE {0}

Uploads ==
    { [kind |-> "gen", len |-> n, cut |-> c, hseed |-> h, pseed |-> p] :
        n \in SupportedLens \cup UnsupportedLens, c \in {0, 1000000},
        h \in 0 .. MaxSeed - 1, p \in 0 .. MaxSeed - 1 }

\* how many write/read round trips lie behind a bytes object
RECURSIVE Depth(_)
Depth(b) ==
    IF b.kind = "gen" THEN 0
    ELSE IF b.arr.base.kind = "frombuffer" THEN 1 + Depth(b.arr.base.buf)
    ELSE 1 + Depth(b.arr.base.src.buf)

\* sample values for cubes built by hand: both ends of the 8- and 16-bit ranges,
\* the sums at which float32 absorbs the 1e-6, and the spec's 200 / 100 example
SampleVals == {0, 1, 15, 16, 100, 200, 255, 65535}

\* a one-pixel, two-band cube np.array([[[a, b]]])
PixelCube(a, b) ==
    Reshape([kind |-> "array", seq |-> <<a, b>>],
            IF a <= 255 /\ b <= 255 THEN "uint8" ELSE "uint16", <<1, 1, 2>>)

\* the band indices a caller passes: around both ends of [0, Z) and of [-Z, 0)
BandArgs(Z) == {0 - Z - 1, 0 - Z, -1, 0, 1, Z - 1, Z}

\* mutant: the cube is written in its own (Y, X, Z) order
write_HSD_NoTranspose(data) == [kind |-> "tobytes", arr |-> data]

\* data.transpose(0, 2, 1).tobytes(), the bytes write_HSD_to_buffer writes
write_HSD_to_buffer(data) == [kind |-> "tobytes", arr |-> Transpose021(data)]

SaveLine(ok) == [text |-> IF ok THEN "File successfully saved at:" ELSE "Error saving file:"]

Init ==
    /\ arg = NoFile
    /\ ret = NoRet
    /\ ndvi = NoRet
    /\ written = NoRet
    /\ file = NoFile
    /\ stdout = <<>>
    /\ last = "init"

\* load_hsd_local: read_HSD_from_buffer on the bytes read from a file object
load_hsd_local(buffer) ==
    /\ Len(stdout) < MaxStdout
    /\ LET r == read_HSD_from_buffer(buffer)
       IN  /\ arg' = buffer
           /\ ret' = r
           /\ stdout' = stdout \o r.printed
    /\ ndvi' = NoRet
    /\ last' = "read"
    /\ UNCHANGED <<written, file>>

\* the application's run starts by decoding the one uploaded file
ReadUpload ==
    /\ last = "init"
    /\ \E b \in Uploads :
        /\ b.cut \in Cuts(b.len)
        /\ (b.cut = 0 => b.hseed = b.pseed)
        /\ load_hsd_local(b)

\* the file written by write_HSD_to_buffer is read back and decoded
ReadFile ==
    /\ last = "write"
    /\ file # NoFile
    /\ load_hsd_local(file)

\* calculate_ndvi on the decoded cube
Ndvi ==
    /\ ret.status = "ok"
    /\ last = "read"
    /\ \E nir \in BandArgs(ret.HSData.shape[3]), red \in BandArgs(ret.HSData.shape[3]) :
         ndvi' = [call |-> <<ret.HSData, nir, red>>, out |-> calculate_ndvi(ret.HSData, nir, red)]
    /\ last' = "ndvi"
    /\ UNCHANGED <<arg, ret, written, file, stdout>>

\* calculate_ndvi on a cube built by hand
NdviPixel ==
    /\ last = "init"
    /\ \E a \in SampleVals, b \in SampleVals, nir \in BandArgs(2), red \in BandArgs(2) :
         ndvi' = [call |-> <<PixelCube(a, b), nir, red>>,
                  out |-> calculate_ndvi(PixelCube(a, b), nir, red)]
    /\ last' = "ndvi"
    /\ UNCHANGED <<arg, ret, written, file, stdout>>

\* write_HSD_to_buffer(file_path, data) on the decoded cube: transpose(0, 2, 1),
\* then open / write / print, any exception caught and printed
Write ==
    /\ ret.status = "ok"
    /\ last \in {"read", "ndvi"}
    /\ Depth(arg) < MaxRoundTrips
    /\ Len(stdout) < MaxStdout
    /\ written' = ret.HSData
    /\ \E opened \in BOOLEAN :
         /\ file' = IF opened
                    THEN write_HSD_to_buffer(ret.HSData)
                    ELSE file
         /\ stdout' = Append(stdout, SaveLine(opened))
    /\ last' = "write"
    /\ UNCHANGED <<arg, ret, ndvi>>

Next == ReadUpload \/ ReadFile \/ Ndvi \/ NdviPixel \/ Write

Spec == Init /\ [][Next]_vars

(***************************************************************************)
(* What the claims are stated against.                                     *)
(***************************************************************************)
\* the layout table of the specification (section 4.1)
LayoutTable ==
    { [size |-> 370623040, width |-> 1280, height |-> 1024, depth |-> 141,
       sample_bytes |-> 2, downcast |-> FALSE],
      [size |-> 87630400, width |-> 640, height |-> 480, depth |-> 141,
       sample_bytes |-> 2, downcast |-> TRUE],
      [size |-> 44315200, width |-> 640, height |-> 480, depth |-> 141,
       sample_bytes |-> 1, downcast |-> FALSE],
      [size |-> 585755200, width |-> 1920, height |-> 1080, depth |-> 141,
       sample_bytes |-> 2, downcast |-> FALSE],
      [size |-> 14805000, width |-> 350, height |-> 300, depth |-> 141,
       sample_bytes |-> 1, downcast |-> FALSE] }

TableSizes == {r.size : r \in LayoutTable}
Row(len) == CHOOSE r \in LayoutTable : r.size = len

\* the index triples at which a three-dimensional array is sampled
Probes(shape) == ProbeIdx(shape[1]) \X ProbeIdx(shape[2]) \X ProbeIdx(shape[3])

\* position in the flat sample sequence of the element an index triple names
FlatIndex(arr, idx) ==
    idx[1] * arr.strides[1] + idx[2] * arr.strides[2] + idx[3] * arr.strides[3]

\* bytes per sample of the buffer view underneath an array, and whether the
\* array is a uint8 cast of that view
ViewItem(arr) == IF arr.base.kind = "astype" THEN arr.base.src.item ELSE arr.base.item
IsCast(arr) == arr.base.kind = "astype"

\* the state right after a call of read_HSD_from_buffer; arg and ret change in
\* no other step
Called == last = "read"
Decoded == last = "read" /\ ret.status = "ok"

\* C1: the layout is chosen from len(buffer) alone: each of the five table
\* lengths runs the reader with that row's width, height, depth, sample width
\* and downcast flag; any other length raises the unsupported-size error
\* carrying the length, with no reader run and no cube returned.
C1_ExactDiscriminant ==
    Called =>
        IF BytesLen(arg) \in TableSizes
        THEN LET row == Row(BytesLen(arg))
             IN  /\ ret.status = "ok"
                 /\ ret.reader # "none"
                 /\ ret.X = row.width
                 /\ ret.Y = row.height
                 /\ ret.HSData.shape[3] = row.depth
                 /\ ViewItem(ret.HSData) = row.sample_bytes
                 /\ IsCast(ret.HSData) = row.downcast
        ELSE /\ ret.status = "raise"
             /\ ret.type = "ValueError"
             /\ ret.in = "read_HSD_from_buffer"
             /\ ret.size = BytesLen(arg)
             /\ ret.reader = "none"
             /\ ret.printed = <<>>
             /\ "HSData" \notin DOMAIN ret

C1_Witness ==
    /\ Called
    /\ BytesLen(arg) = 999999999
    /\ ret.status = "raise"
    /\ ret.size = 999999999

\* C2: on a buffer of exactly a supported layout's size, decode succeeds: the
\* header length len - width*height*depth*sample_bytes is >= 0, what follows
\* the header is exactly width*height*depth samples, every element lies inside
\* the payload, the cube has shape (height, width, depth), and the returned
\* (Y, X) are the cube's first two dimensions.
C2_ShapeInvariant ==
    (Called /\ BytesLen(arg) \in TableSizes) =>
        LET row == Row(BytesLen(arg))
            n   == row.width * row.height * row.depth
        IN  /\ ret.status = "ok"
            /\ ret.header_size = BytesLen(arg) - n * row.sample_bytes
            /\ ret.header_size >= 0
            /\ BytesLen(arg) - ret.header_size = n * ViewItem(ret.HSData)
            /\ ret.HSData.shape = <<row.height, row.width, row.depth>>
            /\ Size(ret.HSData.shape) = n
            /\ <<ret.Y, ret.X>> = <<ret.HSData.shape[1], ret.HSData.shape[2]>>
            /\ \A p \in Probes(ret.HSData.shape) :
                 /\ 0 <= FlatIndex(ret.HSData, p)
                 /\ FlatIndex(ret.HSData, p) < n

C2_Witness ==
    /\ Called
    /\ BytesLen(arg) = 585755200
    /\ ret.status = "ok"
    /\ ret.header_size = 1000000
    /\ ret.HSData.shape = <<1080, 1920, 141>>

\* sample k of the payload of buffer b under a table row: the bytes after the
\* header, little-endian for two-byte samples, cut to 8 bits where the row says
PayloadSample(b, row, k) ==
    LET hdr == BytesLen(b) - row.width * row.height * row.depth * row.sample_bytes
        v   == IF row.sample_bytes = 1 THEN ByteAt(b, hdr + k)
               ELSE ByteAt(b, hdr + 2 * k) + 256 * ByteAt(b, hdr + 2 * k + 1)
    IN  IF row.downcast THEN v % 256 ELSE v

SameCube(a, b) ==
    /\ a.shape = b.shape
    /\ a.dtype = b.dtype
    /\ \A p \in Probes(a.shape) : ElemAt(a, p) = ElemAt(b, p)

\* C3 as stated: writing a decoded cube and decoding the written bytes again
\* yields a cube identical to the original, for every supported layout.
C3_RoundTripEveryLayout ==
    (Called /\ arg.kind = "tobytes") =>
        /\ ret.status = "ok"
        /\ SameCube(ret.HSData, written)

\* C3 amended: the written bytes are the cube's samples alone, with no header.
\* For the 14,805,000-byte layout, whose header is empty, decoding them again
\* yields a cube identical to the original; for the other four layouts their
\* length is none of the five supported lengths and decoding them raises the
\* unsupported-size error carrying that length.
C3_RoundTripHeaderless ==
    (Called /\ arg.kind = "tobytes") =>
        LET n == Size(written.shape) * ItemSize(written.dtype)
        IN  /\ BytesLen(arg) = n
            /\ IF written.shape = <<300, 350, 141>>
               THEN /\ n = 14805000
                    /\ ret.status = "ok"
                    /\ SameCube(ret.HSData, written)
               ELSE /\ n \notin TableSizes
                    /\ ret.status = "raise"
                    /\ ret.in = "read_HSD_from_buffer"
                    /\ ret.size = n

C3_Witness ==
    /\ Called
    /\ arg.kind = "tobytes"
    /\ ret.status = "ok"
    /\ \E p \in Probes(ret.HSData.shape) :
         /\ p[2] > 0 /\ p[3] > 0
         /\ ElemAt(ret.HSData, p) # ElemAt(ret.HSData, <<p[1], p[3], p[2]>>)

\* the buffer b with its first hdr bytes replaced by those of seed h
HeaderVariant(b, hdr, h) == [b EXCEPT !.cut = hdr, !.hseed = h]

\* C4: two buffers of the same supported length with identical payload bytes
\* and arbitrary different header bytes decode to cubes equal element for
\* element, with the same (Y, X).
C4_HeaderAgnostic ==
    (Decoded /\ arg.kind = "gen") =>
        LET row == Row(BytesLen(arg))
            hdr == BytesLen(arg)
                   - row.width * row.height * row.depth * row.sample_bytes
        IN  \A h \in 0 .. MaxSeed :
              (arg.cut <= hdr) =>
                LET other == read_HSD_from_buffer(HeaderVariant(arg, hdr, h))
                IN  /\ other.status = "ok"
                    /\ <<other.Y, other.X>> = <<ret.Y, ret.X>>
                    /\ SameCube(other.HSData, ret.HSData)

C4_Witness ==
    /\ Decoded
    /\ arg.kind = "gen"
    /\ BytesLen(arg) = 370623040
    /\ arg.cut = 1000000
    /\ \E h \in 0 .. MaxSeed :
         /\ ByteAt(HeaderVariant(arg, 1000000, h), 0) # ByteAt(arg, 0)
         /\ ByteAt(HeaderVariant(arg, 1000000, h), 999999) # ByteAt(arg, 999999)

\* C5: in the 87,630,400-byte layout every two-byte little-endian sample
\* v = lo + 256*hi appears in the cube as v mod 256, its low byte, as an 8-bit
\* value; in the other four layouts the sample is returned unchanged at its
\* declared width.
C5_DowncastTruncates ==
    Decoded =>
        LET row == Row(BytesLen(arg))
        IN  \A p \in Probes(ret.HSData.shape) :
              LET k  == FlatIndex(ret.HSData, p)
                  at == ret.header_size + row.sample_bytes * k
                  lo == ByteAt(arg, at)
                  hi == ByteAt(arg, at + 1)
                  v  == lo + 256 * hi
              IN  IF BytesLen(arg) = 87630400
                  THEN /\ ret.HSData.dtype = "uint8"
                       /\ ElemAt(ret.HSData, p) = v % 256
                       /\ ElemAt(ret.HSData, p) = lo
                  ELSE IF row.sample_bytes = 2
                  THEN /\ ret.HSData.dtype = "uint16"
                       /\ ElemAt(ret.HSData, p) = v
                  ELSE /\ ret.HSData.dtype = "uint8"
                       /\ ElemAt(ret.HSData, p) = lo

C5_Witness ==
    /\ Decoded
    /\ BytesLen(arg) = 87630400
    /\ \E p \in Probes(ret.HSData.shape) :
         LET at == ret.header_size + 2 * FlatIndex(ret.HSData, p)
             lo == ByteAt(arg, at)
             hi == ByteAt(arg, at + 1)
         IN  /\ hi # 0 /\ hi # lo /\ lo # 255
             /\ ElemAt(ret.HSData, p) = lo

\* C10 as stated: cube[y][x][z] is the payload sample at flat index
\* z*height*width + y*width + x (payload in (depth, height, width) order).
C10_PlacementDepthMajor ==
    Decoded =>
        LET row == Row(BytesLen(arg))
        IN  \A p \in Probes(ret.HSData.shape) :
              ElemAt(ret.HSData, p) =
                PayloadSample(arg, row,
                              p[3] * row.height * row.width + p[1] * row.width + p[2])

\* the flat payload index of cube[y][x][z] when the payload is laid out in
\* (height, depth, width) order, width varying fastest
RowMajorHZW(row, p) == p[1] * row.depth * row.width + p[3] * row.width + p[2]

\* C10 amended: decode lays the flat payload out in (height, depth, width)
\* order, width varying fastest, and exchanges the last two axes, so that
\* cube[y][x][z] is the payload sample at flat index
\* y*depth*width + z*width + x; distinct cube positions take distinct payload
\* samples, all inside the payload.
C10_PlacementHeightMajor ==
    Decoded =>
        LET row == Row(BytesLen(arg))
            n   == row.width * row.height * row.depth
        IN  /\ \A p \in Probes(ret.HSData.shape) :
                 /\ ElemAt(ret.HSData, p) = PayloadSample(arg, row, RowMajorHZW(row, p))
                 /\ RowMajorHZW(row, p) \in 0 .. n - 1
            /\ \A p, q \in Probes(ret.HSData.shape) :
                 p # q => RowMajorHZW(row, p) # RowMajorHZW(row, q)

C10_Witness ==
    /\ Decoded
    /\ BytesLen(arg) = 370623040
    /\ \E p \in Probes(ret.HSData.shape) :
         /\ p[1] > 0 /\ p[3] > 0
         /\ ElemAt(ret.HSData, p) = PayloadSample(arg, Row(370623040), RowMajorHZW(Row(370623040), p))
         /\ ElemAt(ret.HSData, p) #
              PayloadSample(arg, Row(370623040), p[3] * 1024 * 1280 + p[1] * 1280 + p[2])

\* the arguments and the result of the last calculate_ndvi call
NdviCube == ndvi.call[1]
NdviNir == ndvi.call[2]
NdviRed == ndvi.call[3]
NdviDone == last = "ndvi"
InRange(i, depth) == 0 <= i /\ i < depth
NdviInRange ==
    /\ NdviDone
    /\ InRange(NdviNir, NdviCube.shape[3])
    /\ InRange(NdviRed, NdviCube.shape[3])

\* C6 as stated: a nir or red band index outside [0, depth), negative ones
\* included, raises an error and returns no raster.
C6_BandIndexBounds ==
    (NdviDone /\ ~NdviInRange) =>
        /\ ndvi.out.status = "raise"
        /\ "at" \notin DOMAIN ndvi.out

Abs(i) == IF i < 0 THEN 0 - i ELSE i

\* floor(|r| * 2^13) of a float32 r with |r| <= 1
Trunc13(r) ==
    IF r.cls = "zero" \/ 0 - r.e - 13 > 30 THEN 0 ELSE r.m \div (2 ^ (0 - r.e - 13))

\* |r| <= 1
AbsLeOne(r) ==
    \/ r.cls = "zero"
    \/ r.cls = "finite" /\ (r.e + 24 <= 0 \/ (r.e = -23 /\ r.m = 2 ^ 23))

\* C7: for in-range bands, the raster value at every pixel is
\* (NIR - Red) / (NIR + Red + 1e-6) of that pixel's two samples, evaluated in
\* float32: the denominator is strictly positive, the value is a finite number
\* of the sign of NIR - Red that agrees with the exact quotient to within
\* 2^-12, it is exactly 0 where NIR = Red (0 = 0 included), and NIR = 200,
\* Red = 100 gives the float32 nearest to 100/(300 + 1e-6), 11184811 * 2^-25.
C7_NdviValue ==
    (NdviInRange /\ ndvi.out.status = "ok") =>
        /\ ndvi.out.shape = <<NdviCube.shape[1], NdviCube.shape[2]>>
        /\ \A p \in DOMAIN ndvi.out.at :
             LET NIR == ElemAt(NdviCube, <<p[1], p[2], NdviNir>>)
                 Red == ElemAt(NdviCube, <<p[1], p[2], NdviRed>>)
                 den == F32Add(F32Add(F32FromInt(NIR), F32FromInt(Red)), Eps32)
                 r   == ndvi.out.at[p]
             IN  /\ den.cls = "finite" /\ den.s = 0
                 /\ r.cls \in {"zero", "finite"}
                 /\ (NIR = Red) = (r = F32Zero)
                 /\ (NIR > Red => r.s = 0)
                 /\ (NIR < Red => r.s = 1)
                 /\ Abs(Trunc13(r) * (NIR + Red) - Abs(NIR - Red) * 2 ^ 13)
                      <= 2 * (NIR + Red)
                 /\ (NIR = 200 /\ Red = 100 =>
                       r = [cls |-> "finite", s |-> 0, m |-> 11184811, e |-> -25])

C7_Witness ==
    /\ NdviInRange
    /\ ndvi.out.status = "ok"
    /\ ElemAt(NdviCube, <<0, 0, NdviNir>>) = 200
    /\ ElemAt(NdviCube, <<0, 0, NdviRed>>) = 100
    /\ ndvi.out.at[<<0, 0>>] = [cls |-> "finite", s |-> 0, m |-> 11184811, e |-> -25]

\* C8: for a cube produced by decode and in-range bands, every value of the
\* raster lies in [-1, 1].
C8_NdviRange ==
    (NdviInRange /\ ret.status = "ok" /\ NdviCube = ret.HSData) =>
        /\ ndvi.out.status = "ok"
        /\ \A p \in DOMAIN ndvi.out.at : AbsLeOne(ndvi.out.at[p])

C8_Witness ==
    /\ NdviInRange
    /\ ret.status = "ok"
    /\ NdviCube = ret.HSData
    /\ ndvi.out.status = "ok"
    /\ \E p, q \in DOMAIN ndvi.out.at :
         /\ ndvi.out.at[p].cls = "finite" /\ ndvi.out.at[p].s = 1
         /\ ndvi.out.at[q].cls = "finite" /\ ndvi.out.at[q].s = 0
         /\ AbsLeOne(ndvi.out.at[p]) /\ AbsLeOne(ndvi.out.at[q])

\* C9 as stated: the decoding core and calculate_ndvi never print anything.
C9_NeverPrints == \A i \in 1 .. Len(stdout) : stdout[i].text # "Header Size:"

\* C9 amended: a call of read_HSD_from_buffer on a buffer of a supported
\* length prints exactly one line, "Header Size: <header length> bytes"; a
\* call on any other length prints nothing; calculate_ndvi prints nothing.
C9_PrintsHeaderSize ==
    [][ /\ last' = "read" =>
             stdout' = stdout \o
                 (IF BytesLen(arg') \in TableSizes
                  THEN LET row == Row(BytesLen(arg'))
                       IN  <<[text |-> "Header Size:",
                              n |-> BytesLen(arg') - row.width * row.height
                                                     * row.depth * row.sample_bytes,
                              unit |-> "bytes"]>>
                  ELSE <<>>)
        /\ last' = "ndvi" => stdout' = stdout ]_vars

C9_Witness ==
    /\ Called
    /\ BytesLen(arg) = 87630400
    /\ stdout = <<[text |-> "Header Size:", n |-> 1000000, unit |-> "bytes"]>>

====
